---------------------------- MODULE Spec2Model ----------------------------
(***************************************************************************)
(* ExerciseAnalyzer (src/exercise_analyzer.py): exercise detection over a  *)
(* bounded angle history, the down/up repetition counter, form feedback    *)
(* and the quality score.                                                  *)
(*                                                                         *)
(* An angle frame (a Python dict joint -> angle) is a function from a set  *)
(* of joint names to integer degrees.  Python's None is the value None.    *)
(***************************************************************************)
EXTENDS Integers, Sequences, FiniteSets, TLC

VARIABLES
    exercise_count,     \* self.exercise_count
    stage,              \* self.stage: None, "down" or "up"
    current_exercise,   \* self.current_exercise: None or a label
    angle_history,      \* self.angle_history: deque(maxlen=30) of frames
    feedback_messages,  \* self.feedback_messages
    op,                 \* the method called last ("init" after construction)
    last_type,          \* the exercise_type argument of that call, else None
    ret,                \* what that call returned
    arrived,            \* the non-empty frames given to detect_exercise since
                        \* construction or the last reset, in arrival order
    script,             \* the test driver's scenario (NoScript when there is none)
    fed,                \* how many frames of the scenario the driver has fed
    last_angles         \* the frame of the last count_repetitions or evaluate_form
                        \* call where the caller records it, None before that

analyzer == <<exercise_count, stage, current_exercise, angle_history,
              feedback_messages>>
vars == <<exercise_count, stage, current_exercise, angle_history,
          feedback_messages, op, last_type, ret, arrived, script, fed,
          last_angles>>

None == "None"

----------------------------------------------------------------------------
(* Program constants *)

HistoryMaxLen == 30        \* deque(maxlen=30)
MinHistory == 10           \* detect_exercise: len(self.angle_history) < 10
QualityMinHistory == 10    \* _calculate_quality_score: len(self.angle_history) < 10
StaticWindow == 10         \* list(self.angle_history)[-10:]
DynamicWindow == 15        \* list(self.angle_history)[-15:]
MovementRange == 40        \* angle_range > 40
QualityWindow == 10        \* list(self.angle_history)[-10:]
SmoothMin == 1             \* 1 < change
SmoothMax == 20            \* change < 20
PushupHipMin == 160        \* hip_avg < 160
PlankHipMin == 170         \* hip_avg < 170
KneeDiffMax == 15          \* knee_diff > 15

----------------------------------------------------------------------------
(* Bounds of the model *)

MaxCount == 2              \* Spec: count_repetitions is called while exercise_count < MaxCount
MaxCountLight == 1         \* the same, in the other specifications
MaxArrivals == 11          \* frames detect_exercise receives between resets
MaxArrivalsLong == 32      \* the same, in SpecLong
MaxSwitches == 1           \* pose changes in a held-pose stream
MaxPeriod == 3             \* period of a cyclic stream
MaxScriptLen == 5          \* frames of a generated scenario
MaxArrivalsWindow == 16    \* the same, in SpecTorso: one more than the movement window
MaxArrivalsCalls == 1      \* frames detect_exercise receives between resets, in SpecCalls

----------------------------------------------------------------------------
(* Helpers *)

Min(S) == CHOOSE x \in S : \A y \in S : x <= y
Max(S) == CHOOSE x \in S : \A y \in S : x >= y
Abs(x) == IF x < 0 THEN -x ELSE x
Range(s) == {s[i] : i \in 1..Len(s)}

\* list(d)[-n:]
LastN(s, n) == IF Len(s) <= n THEN s ELSE SubSeq(s, Len(s) - n + 1, Len(s))

\* mutant: a deque without maxlen
deque_append_unbounded(d, x) == Append(d, x)

\* deque.append with maxlen: the oldest element is dropped when the deque is full
deque_append(d, x) ==
    IF Len(d) < HistoryMaxLen THEN Append(d, x) ELSE Append(Tail(d), x)

EmptyFrame == [j \in {} |-> 0]
Frame1(j, a) == j :> a
Frame2(j1, a1, j2, a2) == (j1 :> a1) @@ (j2 :> a2)

----------------------------------------------------------------------------
(* The exercise catalog: self.exercise_patterns, in dict (insertion) order *)

\* mutant: lunge listed ahead of squat
Catalog_lunge_first == <<"pushup", "lunge", "squat", "situp", "jumping_jack", "plank">>

Catalog == <<"pushup", "squat", "situp", "jumping_jack", "lunge", "plank">>
PatternNames == Range(Catalog)

exercise_patterns(name) ==
    CASE name = "pushup" ->
           [key_joints |-> <<"left_elbow", "right_elbow">>,
            down_threshold |-> 90, up_threshold |-> 160,
            ideal_range |-> <<70, 90>>,
            form_checks |-> {"back_straight", "full_range"}]
      [] name = "squat" ->
           [key_joints |-> <<"left_knee", "right_knee">>,
            down_threshold |-> 90, up_threshold |-> 160,
            ideal_range |-> <<80, 100>>,
            form_checks |-> {"knees_aligned", "back_straight"}]
      [] name = "situp" ->
           [key_joints |-> <<"left_hip", "right_hip">>,
            down_threshold |-> 150, up_threshold |-> 70,
            ideal_range |-> <<45, 70>>,
            form_checks |-> {"controlled_movement", "neck_neutral"}]
      [] name = "jumping_jack" ->
           [key_joints |-> <<"left_shoulder", "right_shoulder">>,
            down_threshold |-> 30, up_threshold |-> 150,
            ideal_range |-> <<150, 180>>,
            form_checks |-> {"synchronized_movement"}]
      [] name = "lunge" ->
           [key_joints |-> <<"left_knee", "right_knee">>,
            down_threshold |-> 90, up_threshold |-> 160,
            ideal_range |-> <<85, 95>>,
            form_checks |-> {"knee_alignment", "balance"}]
      [] name = "plank" ->
           [key_joints |-> <<"left_hip", "right_hip">>,
            static |-> TRUE,
            ideal_range |-> <<170, 180>>,
            form_checks |-> {"back_straight", "core_engaged"}]

\* pattern.get('static', False)
is_static(pattern) == "static" \in DOMAIN pattern /\ pattern.static

----------------------------------------------------------------------------
(* detect_exercise *)

\* mutant: the static match needs at least one key joint reading
check_static_position_nonvacuous(pattern, history) ==
    LET recent_angles == LastN(history, StaticWindow)
    IN  /\ \E i \in 1..Len(recent_angles) :
             \E joint \in Range(pattern.key_joints) : joint \in DOMAIN recent_angles[i]
        /\ \A i \in 1..Len(recent_angles) :
             \A joint \in Range(pattern.key_joints) :
               joint \in DOMAIN recent_angles[i] =>
                 /\ pattern.ideal_range[1] <= recent_angles[i][joint]
                 /\ recent_angles[i][joint] <= pattern.ideal_range[2]

\* _check_static_position: every present key-joint reading of the last 10
\* frames lies in the ideal range
check_static_position(pattern, history) ==
    LET recent_angles == LastN(history, StaticWindow)
    IN  \A i \in 1..Len(recent_angles) :
          \A joint \in Range(pattern.key_joints) :
            joint \in DOMAIN recent_angles[i] =>
              /\ pattern.ideal_range[1] <= recent_angles[i][joint]
              /\ recent_angles[i][joint] <= pattern.ideal_range[2]

\* _check_dynamic_movement: some key joint's readings over the last 15 frames
\* span more than 40 degrees
check_dynamic_movement(pattern, history) ==
    LET recent_angles == LastN(history, DynamicWindow)
    IN  \E joint \in Range(pattern.key_joints) :
          LET joint_angles == {recent_angles[i][joint] :
                                 i \in {k \in 1..Len(recent_angles) :
                                          joint \in DOMAIN recent_angles[k]}}
          IN  /\ joint_angles # {}
              /\ Max(joint_angles) - Min(joint_angles) > MovementRange

\* _matches_pattern
matches_pattern(exercise_name, history) ==
    LET pattern == exercise_patterns(exercise_name)
    IN  IF is_static(pattern)
        THEN check_static_position(pattern, history)
        ELSE check_dynamic_movement(pattern, history)

\* mutant: the last matching label wins
first_match_last(history) ==
    LET hits == {i \in 1..Len(Catalog) : matches_pattern(Catalog[i], history)}
    IN  IF hits = {} THEN None ELSE Catalog[Max(hits)]

\* the loop over self.exercise_patterns.items(): the first label, in catalog
\* order, whose pattern matches; None when the loop falls through
first_match(history) ==
    LET hits == {i \in 1..Len(Catalog) : matches_pattern(Catalog[i], history)}
    IN  IF hits = {} THEN None ELSE Catalog[Min(hits)]

\* self.current_exercise or 'unknown'
or_unknown(exercise) == IF exercise = None THEN "unknown" ELSE exercise

\* mutant: the history threshold off by one (len < 9)
detect_appended_early(h2, cur) ==
    IF Len(h2) < MinHistory - 1
    THEN [history |-> h2, current |-> cur, value |-> or_unknown(cur)]
    ELSE LET m == first_match(h2)
         IN  IF m # None
             THEN [history |-> h2, current |-> m, value |-> m]
             ELSE [history |-> h2, current |-> cur, value |-> or_unknown(cur)]

\* mutant: the label returned is stored, 'unknown' included
detect_appended_store_unknown(h2, cur) ==
    IF Len(h2) < MinHistory
    THEN [history |-> h2, current |-> cur, value |-> or_unknown(cur)]
    ELSE LET m == first_match(h2)
         IN  IF m # None
             THEN [history |-> h2, current |-> m, value |-> m]
             ELSE [history |-> h2, current |-> or_unknown(cur),
                   value |-> or_unknown(cur)]

\* detect_exercise after the append, with history h2 and label cur:
\* the history, the label and the return value afterwards
detect_appended(h2, cur) ==
    IF Len(h2) < MinHistory
    THEN [history |-> h2, current |-> cur, value |-> or_unknown(cur)]
    ELSE LET m == first_match(h2)
         IN  IF m # None
             THEN [history |-> h2, current |-> m, value |-> m]
             ELSE [history |-> h2, current |-> cur, value |-> or_unknown(cur)]

\* mutant: an empty frame answered with the sticky label
detect_result_empty_sticky(h, cur, angles) ==
    IF DOMAIN angles = {}
    THEN [history |-> h, current |-> cur, value |-> or_unknown(cur)]
    ELSE detect_appended(deque_append(h, angles), cur)

\* detect_exercise from a state with history h and label cur
detect_result(h, cur, angles) ==
    IF DOMAIN angles = {}
    THEN [history |-> h, current |-> cur, value |-> "unknown"]
    ELSE detect_appended(deque_append(h, angles), cur)

detect_exercise(angles) ==
    LET r == detect_result(angle_history, current_exercise, angles)
    IN  /\ op' = "detect_exercise"
        /\ last_type' = None
        /\ angle_history' = r.history
        /\ current_exercise' = r.current
        /\ ret' = r.value
        /\ arrived' = IF angles = EmptyFrame THEN arrived
                      ELSE Append(arrived, angles)
        /\ UNCHANGED <<exercise_count, stage, feedback_messages>>

----------------------------------------------------------------------------
(* count_repetitions *)

\* mutant: the loop does not break, the last key joint present decides
first_present_last(key_joints, angles) ==
    LET present == {i \in 1..Len(key_joints) : key_joints[i] \in DOMAIN angles}
    IN  IF present = {} THEN None ELSE key_joints[Max(present)]

\* for joint in key_joints: if joint in angles: ...; break
first_present(key_joints, angles) ==
    LET present == {i \in 1..Len(key_joints) : key_joints[i] \in DOMAIN angles}
    IN  IF present = {} THEN None ELSE key_joints[Min(present)]

\* mutant: the up crossing counts whatever the stage
machine_below_down_any_stage(st, cnt, angle, down_threshold, up_threshold) ==
    IF angle < down_threshold /\ st # "down"
    THEN [stage |-> "down", exercise_count |-> cnt]
    ELSE IF angle > up_threshold
         THEN [stage |-> "up", exercise_count |-> cnt + 1]
         ELSE [stage |-> st, exercise_count |-> cnt]

\* mutant: the up crossing tested against the down threshold
machine_below_down_one_threshold(st, cnt, angle, down_threshold, up_threshold) ==
    IF angle < down_threshold /\ st # "down"
    THEN [stage |-> "down", exercise_count |-> cnt]
    ELSE IF angle > down_threshold /\ st = "down"
         THEN [stage |-> "up", exercise_count |-> cnt + 1]
         ELSE [stage |-> st, exercise_count |-> cnt]

\* mutant: the down threshold itself enters "down" (angle <= down_threshold)
machine_below_down_inclusive(st, cnt, angle, down_threshold, up_threshold) ==
    IF angle <= down_threshold /\ st # "down"
    THEN [stage |-> "down", exercise_count |-> cnt]
    ELSE IF angle > up_threshold /\ st = "down"
         THEN [stage |-> "up", exercise_count |-> cnt + 1]
         ELSE [stage |-> st, exercise_count |-> cnt]

\* the pushup/squat/lunge and jumping_jack branches: below the down threshold
\* enters "down"; above the up threshold while "down" enters "up" and counts
machine_below_down(st, cnt, angle, down_threshold, up_threshold) ==
    IF angle < down_threshold /\ st # "down"
    THEN [stage |-> "down", exercise_count |-> cnt]
    ELSE IF angle > up_threshold /\ st = "down"
         THEN [stage |-> "up", exercise_count |-> cnt + 1]
         ELSE [stage |-> st, exercise_count |-> cnt]

\* the situp branch: above the down threshold enters "down"; below the up
\* threshold while "down" enters "up" and counts
\* mutant: the thresholds themselves count as crossed
machine_above_down_inclusive(st, cnt, angle, down_threshold, up_threshold) ==
    IF angle >= down_threshold /\ st # "down"
    THEN [stage |-> "down", exercise_count |-> cnt]
    ELSE IF angle <= up_threshold /\ st = "down"
         THEN [stage |-> "up", exercise_count |-> cnt + 1]
         ELSE [stage |-> st, exercise_count |-> cnt]

machine_above_down(st, cnt, angle, down_threshold, up_threshold) ==
    IF angle > down_threshold /\ st # "down"
    THEN [stage |-> "down", exercise_count |-> cnt]
    ELSE IF angle < up_threshold /\ st = "down"
         THEN [stage |-> "up", exercise_count |-> cnt + 1]
         ELSE [stage |-> st, exercise_count |-> cnt]

\* the state machine on the first key joint present in the frame
count_dynamic(st, cnt, angles, exercise_type, pattern) ==
    LET joint == first_present(pattern.key_joints, angles)
    IN  IF joint = None THEN [stage |-> st, exercise_count |-> cnt]
        ELSE IF exercise_type \in {"pushup", "squat", "lunge"}
             THEN machine_below_down(st, cnt, angles[joint],
                     pattern.down_threshold, pattern.up_threshold)
        ELSE IF exercise_type = "situp"
             THEN machine_above_down(st, cnt, angles[joint],
                     pattern.down_threshold, pattern.up_threshold)
        ELSE IF exercise_type = "jumping_jack"
             THEN machine_below_down(st, cnt, angles[joint],
                     pattern.down_threshold, pattern.up_threshold)
        ELSE [stage |-> st, exercise_count |-> cnt]

\* mutant: a label that is not counted zeroes the count
count_result_uncounted_zero(st, cnt, angles, exercise_type) ==
    IF exercise_type \notin PatternNames
    THEN [stage |-> st, exercise_count |-> 0]
    ELSE IF is_static(exercise_patterns(exercise_type))
         THEN [stage |-> st, exercise_count |-> 0]
         ELSE count_dynamic(st, cnt, angles, exercise_type,
                            exercise_patterns(exercise_type))

\* count_repetitions from stage st and count cnt: the stage and count afterwards
count_result(st, cnt, angles, exercise_type) ==
    IF exercise_type \notin PatternNames
    THEN [stage |-> st, exercise_count |-> cnt]
    ELSE IF is_static(exercise_patterns(exercise_type))
         THEN [stage |-> st, exercise_count |-> cnt]
         ELSE count_dynamic(st, cnt, angles, exercise_type,
                            exercise_patterns(exercise_type))

count_repetitions(angles, exercise_type) ==
    LET r == count_result(stage, exercise_count, angles, exercise_type)
    IN  /\ op' = "count_repetitions"
        /\ last_type' = exercise_type
        /\ stage' = r.stage
        /\ exercise_count' = r.exercise_count
        /\ ret' = r.exercise_count
        /\ UNCHANGED <<current_exercise, angle_history, feedback_messages, arrived>>

----------------------------------------------------------------------------
(* evaluate_form *)

\* joint.replace('_', ' ').title()
joint_title(joint) ==
    CASE joint = "left_shoulder" -> "Left Shoulder"
      [] joint = "right_shoulder" -> "Right Shoulder"
      [] joint = "left_elbow" -> "Left Elbow"
      [] joint = "right_elbow" -> "Right Elbow"
      [] joint = "left_hip" -> "Left Hip"
      [] joint = "right_hip" -> "Right Hip"
      [] joint = "left_knee" -> "Left Knee"
      [] joint = "right_knee" -> "Right Knee"

\* mutant: the angle range is judged in every stage
joint_feedback_any_stage(st, joint, angle, exercise_type, ideal_min, ideal_max) ==
    IF st \in {None, "down", "up"}
    THEN IF exercise_type \in {"pushup", "squat"}
         THEN IF angle > ideal_max
              THEN <<"Go deeper! " \o joint_title(joint) \o " angle: "
                       \o ToString(angle) \o "°">>
              ELSE IF angle < ideal_min
                   THEN <<"Don't go too low! Risk of injury.">>
                   ELSE <<>>
         ELSE IF exercise_type = "situp"
              THEN IF angle < ideal_min
                   THEN <<"Come up higher! Target: " \o ToString(ideal_min) \o "°">>
                   ELSE <<>>
              ELSE <<>>
    ELSE <<>>

\* the messages one key joint contributes while the stage is "down"
joint_feedback(st, joint, angle, exercise_type, ideal_min, ideal_max) ==
    IF st = "down"
    THEN IF exercise_type \in {"pushup", "squat"}
         THEN IF angle > ideal_max
              THEN <<"Go deeper! " \o joint_title(joint) \o " angle: "
                       \o ToString(angle) \o "°">>
              ELSE IF angle < ideal_min
                   THEN <<"Don't go too low! Risk of injury.">>
                   ELSE <<>>
         ELSE IF exercise_type = "situp"
              THEN IF angle < ideal_min
                   THEN <<"Come up higher! Target: " \o ToString(ideal_min) \o "°">>
                   ELSE <<>>
              ELSE <<>>
    ELSE <<>>

\* for joint in pattern['key_joints']: if joint in angles: ...
RECURSIVE key_joint_feedback(_, _, _, _, _)
key_joint_feedback(st, key_joints, angles, exercise_type, ideal_range) ==
    IF key_joints = <<>> THEN <<>>
    ELSE (IF Head(key_joints) \in DOMAIN angles
          THEN joint_feedback(st, Head(key_joints), angles[Head(key_joints)],
                              exercise_type, ideal_range[1], ideal_range[2])
          ELSE <<>>)
         \o key_joint_feedback(st, Tail(key_joints), angles, exercise_type,
                               ideal_range)

\* the 'back_straight' check; hip_avg < t is left_hip + right_hip < 2 t
back_feedback(angles, exercise_type, form_checks) ==
    IF /\ "back_straight" \in form_checks
       /\ "left_hip" \in DOMAIN angles
       /\ "right_hip" \in DOMAIN angles
    THEN LET hip_sum == angles["left_hip"] + angles["right_hip"]
         IN  IF exercise_type = "pushup" /\ hip_sum < 2 * PushupHipMin
             THEN <<"Keep your back straight!">>
             ELSE IF exercise_type = "plank" /\ hip_sum < 2 * PlankHipMin
                  THEN <<"Don't let your hips sag!">>
                  ELSE <<>>
    ELSE <<>>

\* mutant: knees exactly KneeDiffMax apart are flagged too
knee_feedback_inclusive(angles, form_checks) ==
    IF /\ "knees_aligned" \in form_checks
       /\ "left_knee" \in DOMAIN angles
       /\ "right_knee" \in DOMAIN angles
       /\ Abs(angles["left_knee"] - angles["right_knee"]) >= KneeDiffMax
    THEN <<"Keep knees aligned!">>
    ELSE <<>>

\* the 'knees_aligned' check
knee_feedback(angles, form_checks) ==
    IF /\ "knees_aligned" \in form_checks
       /\ "left_knee" \in DOMAIN angles
       /\ "right_knee" \in DOMAIN angles
       /\ Abs(angles["left_knee"] - angles["right_knee"]) > KneeDiffMax
    THEN <<"Keep knees aligned!">>
    ELSE <<>>

\* the feedback list evaluate_form returns when the stage is st
form_feedback(st, angles, exercise_type) ==
    IF exercise_type \notin PatternNames THEN <<>>
    ELSE LET pattern == exercise_patterns(exercise_type)
         IN  key_joint_feedback(st, pattern.key_joints, angles, exercise_type,
                                pattern.ideal_range)
             \o back_feedback(angles, exercise_type, pattern.form_checks)
             \o knee_feedback(angles, pattern.form_checks)

evaluate_form(angles, exercise_type) ==
    /\ op' = "evaluate_form"
    /\ last_type' = exercise_type
    /\ ret' = form_feedback(stage, angles, exercise_type)
    /\ UNCHANGED <<exercise_count, stage, current_exercise, angle_history,
                   feedback_messages, arrived>>

----------------------------------------------------------------------------
(* get_performance_summary *)

\* mutant: a change of exactly 1 degree counts as smooth (1 <= change)
consistency_scores_inclusive(history) ==
    LET recent_angles == LastN(history, QualityWindow)
    IN  {<<i, joint, IF SmoothMin <= Abs(recent_angles[i][joint] - recent_angles[i-1][joint])
                        /\ Abs(recent_angles[i][joint] - recent_angles[i-1][joint]) < SmoothMax
                     THEN 1 ELSE 0>> :
           <<i, joint>> \in {p \in (2..Len(recent_angles)) \X
                                    UNION {DOMAIN recent_angles[k] : k \in 1..Len(recent_angles)} :
                               /\ p[2] \in DOMAIN recent_angles[p[1]]
                               /\ p[2] \in DOMAIN recent_angles[p[1] - 1]}}

\* the entries appended to consistency_scores, as <<pair, joint, score>>: one per
\* consecutive pair of the last 10 frames and joint present in both frames
consistency_scores(history) ==
    LET recent_angles == LastN(history, QualityWindow)
    IN  {<<i, joint, IF SmoothMin < Abs(recent_angles[i][joint] - recent_angles[i-1][joint])
                        /\ Abs(recent_angles[i][joint] - recent_angles[i-1][joint]) < SmoothMax
                     THEN 1 ELSE 0>> :
           <<i, joint>> \in {p \in (2..Len(recent_angles)) \X
                                    UNION {DOMAIN recent_angles[k] : k \in 1..Len(recent_angles)} :
                               /\ p[2] \in DOMAIN recent_angles[p[1]]
                               /\ p[2] \in DOMAIN recent_angles[p[1] - 1]}}

\* int(k / n * 100) in IEEE double arithmetic, 0 <= k <= n <= 108: the floor of
\* 100 k / n, except where the rounded quotient times 100 falls below an integer
float_percent(k, n) ==
    IF <<k, n>> \in {<<29, 50>>, <<29, 100>>, <<57, 100>>, <<58, 100>>}
    THEN (100 * k) \div n - 1
    ELSE (100 * k) \div n

\* mutant: no minimum of 10 frames
calculate_quality_score_no_min(history) ==
    LET scores == consistency_scores(history)
        good == Cardinality({s \in scores : s[3] = 1})
    IN  IF scores # {} THEN float_percent(good, Cardinality(scores)) ELSE 0

\* _calculate_quality_score
calculate_quality_score(history) ==
    IF Len(history) < QualityMinHistory THEN 0
    ELSE LET scores == consistency_scores(history)
             good == Cardinality({s \in scores : s[3] = 1})
         IN  IF scores # {} THEN float_percent(good, Cardinality(scores)) ELSE 0

get_performance_summary ==
    /\ op' = "get_performance_summary"
    /\ last_type' = None
    /\ ret' = [exercise |-> current_exercise,
               repetitions |-> exercise_count,
               current_stage |-> stage,
               quality_score |-> calculate_quality_score(angle_history)]
    /\ UNCHANGED <<exercise_count, stage, current_exercise, angle_history,
                   feedback_messages, arrived>>

----------------------------------------------------------------------------
(* reset and __init__ *)

\* mutant: the stage survives a reset
reset_keeps_stage ==
    /\ op' = "reset"
    /\ last_type' = None
    /\ exercise_count' = 0
    /\ current_exercise' = None
    /\ angle_history' = <<>>
    /\ feedback_messages' = <<>>
    /\ ret' = None
    /\ arrived' = <<>>
    /\ UNCHANGED stage

\* mutant: reset forgets the stage and keeps the count
reset_keeps_count ==
    /\ op' = "reset"
    /\ last_type' = None
    /\ stage' = None
    /\ current_exercise' = None
    /\ angle_history' = <<>>
    /\ feedback_messages' = <<>>
    /\ ret' = None
    /\ arrived' = <<>>
    /\ UNCHANGED exercise_count

\* mutant: reset empties the history and keeps the label
reset_keeps_label ==
    /\ op' = "reset"
    /\ last_type' = None
    /\ exercise_count' = 0
    /\ stage' = None
    /\ angle_history' = <<>>
    /\ feedback_messages' = <<>>
    /\ ret' = None
    /\ arrived' = <<>>
    /\ UNCHANGED current_exercise

reset ==
    /\ op' = "reset"
    /\ last_type' = None
    /\ exercise_count' = 0
    /\ stage' = None
    /\ current_exercise' = None
    /\ angle_history' = <<>>
    /\ feedback_messages' = <<>>
    /\ ret' = None
    /\ arrived' = <<>>

NoScript == [angles |-> <<>>, exercise_type |-> None, joint |-> None]

Fresh ==
    /\ exercise_count = 0
    /\ stage = None
    /\ current_exercise = None
    /\ angle_history = <<>>
    /\ feedback_messages = <<>>

Init ==
    /\ Fresh
    /\ op = "init"
    /\ last_type = None
    /\ ret = None
    /\ arrived = <<>>
    /\ script = NoScript
    /\ fed = 0
    /\ last_angles = None

----------------------------------------------------------------------------
(* The callers: which frames and labels the analyzer is given *)

TypeInputs == PatternNames \cup {"unknown", "burpee"}

\* frames for count_repetitions and evaluate_form in Spec
CallJoints == {"left_elbow", "right_elbow", "left_knee", "right_knee",
               "left_hip", "right_hip", "left_shoulder", "right_shoulder"}
CallAngles == {20, 80, 90, 100, 160, 165}
PairAngles == {80, 100, 175}
CallFrames ==
    {EmptyFrame, Frame1("left_wrist", 80)}
    \cup {Frame1(j, a) : j \in CallJoints, a \in CallAngles}
    \cup UNION {{Frame2(p[1], a, p[2], b) : a \in PairAngles, b \in PairAngles} :
                  p \in {<<"left_elbow", "right_elbow">>, <<"left_knee", "right_knee">>,
                         <<"left_hip", "right_hip">>,
                         <<"left_shoulder", "right_shoulder">>}}

\* the few calls of count_repetitions and evaluate_form in the other specifications
LightFrames == {Frame1("left_elbow", 80), Frame1("left_elbow", 165)}
LightTypes == {"pushup"}

\* the frame streams detect_exercise is given
HeldFrames == {EmptyFrame, Frame1("left_knee", 170)}
PoseFrames ==
    {EmptyFrame,
     Frame2("left_elbow", 170, "left_knee", 170),
     Frame2("left_elbow", 80, "left_knee", 170),
     Frame2("left_elbow", 170, "left_knee", 80),
     Frame1("left_hip", 100)}
LongFrames ==
    {EmptyFrame,
     Frame2("left_knee", 170, "left_hip", 100),
     Frame2("left_knee", 80, "left_hip", 100)}
TorsoFrames ==
    {EmptyFrame,
     Frame2("left_hip", 175, "left_shoulder", 20),
     Frame2("left_hip", 100, "left_shoulder", 20),
     Frame2("left_hip", 175, "left_shoulder", 170)}
QualityFrames ==
    {EmptyFrame, Frame1("left_knee", 80), Frame1("left_knee", 81),
     Frame1("left_knee", 85), Frame1("left_knee", 100), Frame1("left_elbow", 100)}

\* frames for count_repetitions and evaluate_form in SpecCalls: each pair of key
\* joints with the first, the second or both present, knees close and apart, a
\* key joint beside a joint of another limb, and a joint no pattern reads
FormFrames ==
    {EmptyFrame, Frame1("left_wrist", 80),
     Frame1("left_elbow", 20), Frame1("left_elbow", 100), Frame1("left_elbow", 165),
     Frame1("right_elbow", 100), Frame1("right_elbow", 165),
     Frame2("left_elbow", 100, "right_elbow", 20),
     Frame2("left_elbow", 100, "right_elbow", 165),
     Frame2("left_elbow", 20, "right_elbow", 165),
     Frame1("left_knee", 20), Frame1("left_knee", 165),
     Frame1("right_knee", 20), Frame1("right_knee", 165),
     Frame2("left_knee", 20, "right_knee", 165),
     Frame2("left_knee", 165, "right_knee", 20),
     Frame2("left_knee", 100, "right_knee", 105),
     Frame2("left_knee", 100, "right_knee", 115),
     Frame2("left_knee", 100, "right_knee", 120),
     Frame1("left_hip", 20), Frame1("left_hip", 165),
     Frame1("right_hip", 20), Frame1("right_hip", 165),
     Frame2("left_hip", 165, "right_hip", 20),
     Frame2("left_hip", 20, "right_hip", 165),
     Frame1("left_shoulder", 20), Frame1("left_shoulder", 165),
     Frame1("right_shoulder", 165),
     Frame2("left_shoulder", 20, "right_shoulder", 165),
     Frame2("left_elbow", 20, "left_knee", 165),
     Frame2("left_elbow", 165, "left_knee", 20)}

\* shapes of a stream: a pose held with few changes, a short cycle repeated
Switches(s) == Cardinality({i \in 1..(Len(s) - 1) : s[i] # s[i + 1]})
Constant(s) == Switches(s) = 0
Held(s) == Switches(s) <= MaxSwitches
Cyclic(s) == \E p \in 1..MaxPeriod : \A i \in 1..(Len(s) - p) : s[i + p] = s[i]

InShape(shape, s) ==
    CASE shape = "constant" -> Constant(s)
      [] shape = "held" -> Held(s)
      [] shape = "cyclic" -> Cyclic(s)

Detect(frames, shape, max_arrivals) ==
    /\ \E angles \in frames :
         /\ angles # EmptyFrame =>
              /\ Len(arrived) < max_arrivals
              /\ InShape(shape, Append(arrived, angles))
         /\ detect_exercise(angles)
    /\ UNCHANGED <<script, fed, last_angles>>

Count(frames, types, max_count) ==
    /\ exercise_count < max_count
    /\ \E angles \in frames, exercise_type \in types :
         count_repetitions(angles, exercise_type)
    /\ UNCHANGED <<script, fed, last_angles>>

Evaluate(frames, types) ==
    /\ \E angles \in frames, exercise_type \in types :
         evaluate_form(angles, exercise_type)
    /\ UNCHANGED <<script, fed, last_angles>>

\* the same calls, the caller keeping the frame it passed
CountCall(frames, types, max_count) ==
    /\ exercise_count < max_count
    /\ \E angles \in frames, exercise_type \in types :
         /\ count_repetitions(angles, exercise_type)
         /\ last_angles' = angles
    /\ UNCHANGED <<script, fed>>

EvaluateCall(frames, types) ==
    /\ \E angles \in frames, exercise_type \in types :
         /\ evaluate_form(angles, exercise_type)
         /\ last_angles' = angles
    /\ UNCHANGED <<script, fed>>

Summary == get_performance_summary /\ UNCHANGED <<script, fed, last_angles>>

Reset == reset /\ UNCHANGED <<script, fed, last_angles>>

\* every method, with the full range of frames and labels for the counter and
\* the form evaluator, over a held pose
Next ==
    \/ Detect(HeldFrames, "constant", MaxArrivals)
    \/ Count(CallFrames, TypeInputs, MaxCount)
    \/ Evaluate(CallFrames, TypeInputs)
    \/ Summary
    \/ Reset

Spec == Init /\ [][Next]_vars

\* every method, over streams of poses with few changes
NextDetect ==
    \/ Detect(PoseFrames, "held", MaxArrivals)
    \/ Count(LightFrames, LightTypes, MaxCountLight)
    \/ Evaluate(LightFrames, LightTypes)
    \/ Summary
    \/ Reset

SpecDetect == Init /\ [][NextDetect]_vars

\* the methods that read or write the history, over streams of hip and shoulder
\* poses with few changes, long enough for a movement to leave the 15-frame window
NextTorso ==
    \/ Detect(TorsoFrames, "held", MaxArrivalsWindow)
    \/ Summary
    \/ Reset

SpecTorso == Init /\ [][NextTorso]_vars

\* every method, over cyclic streams longer than the history's capacity
NextLong ==
    \/ Detect(LongFrames, "cyclic", MaxArrivalsLong)
    \/ Count(LightFrames, LightTypes, MaxCountLight)
    \/ Evaluate(LightFrames, LightTypes)
    \/ Summary
    \/ Reset

SpecLong == Init /\ [][NextLong]_vars

\* every method, over cyclic streams of smooth, static and abrupt changes
NextQuality ==
    \/ Detect(QualityFrames, "cyclic", MaxArrivals)
    \/ Count(LightFrames, LightTypes, MaxCountLight)
    \/ Evaluate(LightFrames, LightTypes)
    \/ Summary
    \/ Reset

SpecQuality == Init /\ [][NextQuality]_vars

\* every method, the counter and the form evaluator over frames with one or both
\* joints of a pair, the frame of each call recorded
NextCalls ==
    \/ Detect(HeldFrames, "constant", MaxArrivalsCalls)
    \/ CountCall(FormFrames, TypeInputs, MaxCountLight)
    \/ EvaluateCall(FormFrames, TypeInputs)
    \/ Summary
    \/ Reset

SpecCalls == Init /\ [][NextCalls]_vars

----------------------------------------------------------------------------
(* The scenario driver: a fresh analyzer fed one sequence of angles, frame *)
(* by frame, through count_repetitions with one label and one key joint    *)

PushupScenario == <<170, 150, 120, 90, 80, 95, 130, 160, 165, 170>>
Oscillation == <<95, 85, 95, 85>>
SitupScenario == <<170, 150, 160, 70, 60, 150, 170, 69>>
ScriptAngles == {20, 85, 95, 165}
DynamicTypes == {"pushup", "squat", "situp", "jumping_jack", "lunge"}

Scripts ==
    {[angles |-> a, exercise_type |-> t, joint |-> j] :
        a \in {PushupScenario, Oscillation, SitupScenario}
              \cup UNION {[1..n -> ScriptAngles] : n \in 0..MaxScriptLen},
        t \in DynamicTypes,
        j \in CallJoints}

InitScript ==
    /\ Fresh
    /\ op = "init"
    /\ last_type = None
    /\ ret = None
    /\ arrived = <<>>
    /\ script \in {sc \in Scripts :
                     sc.joint \in Range(exercise_patterns(sc.exercise_type).key_joints)}
    /\ fed = 0
    /\ last_angles = None

Feed ==
    /\ fed < Len(script.angles)
    /\ count_repetitions(Frame1(script.joint, script.angles[fed + 1]),
                         script.exercise_type)
    /\ fed' = fed + 1
    /\ UNCHANGED <<script, last_angles>>

NextScript == Feed

SpecScript == InitScript /\ [][NextScript]_vars

----------------------------------------------------------------------------
(* Properties *)

DownUpFamily == {"pushup", "squat", "lunge"}

\* C1 (Spec): between resets exercise_count never decreases and changes only in
\* count_repetitions; a count_repetitions call raises it by 0 or 1, and by 1
\* exactly when that call moves the stage from "down" to "up"; detect_exercise,
\* evaluate_form and get_performance_summary leave it alone.
C1_CountOnlyOnDownUp ==
    [][/\ op' # "reset" =>
            exercise_count' \in {exercise_count, exercise_count + 1}
       /\ exercise_count' # exercise_count =>
            op' \in {"count_repetitions", "reset"}
       /\ op' = "count_repetitions" =>
            (exercise_count' = exercise_count + 1
               <=> (stage = "down" /\ stage' = "up"))
       /\ op' \in {"detect_exercise", "evaluate_form", "get_performance_summary"} =>
            exercise_count' = exercise_count]_vars

C1_Witness ==
    /\ op = "count_repetitions"
    /\ stage = "up"
    /\ exercise_count = 2
    /\ ret = 2
    /\ current_exercise = "plank"

\* C2 (SpecScript): for pushup, squat and lunge a count_repetitions call whose
\* used angle is at most 160 never changes exercise_count, from whatever state
\* the frames before it left; the sequence 95, 85, 95, 85 on a fresh analyzer
\* counts nothing.
C2_NoCountWithoutUpCrossing ==
    /\ [][(/\ fed' = fed + 1
           /\ script.exercise_type \in DownUpFamily
           /\ script.angles[fed'] <= 160)
          => exercise_count' = exercise_count]_vars
    /\ []((script.angles = Oscillation /\ script.exercise_type \in DownUpFamily)
          => exercise_count = 0)

C2_Witness ==
    /\ script.angles = Oscillation
    /\ script.exercise_type = "pushup"
    /\ fed = 4
    /\ stage = "down"
    /\ exercise_count = 0

\* C3 (SpecScript): pushup over left_elbow angles 170, 150, 120, 90, 80, 95,
\* 130, 160, 165, 170 on a fresh analyzer: the stage is not "down" before the
\* frame with angle 80 (90 does not enter it), it is "down" from that frame on
\* until the 160/165/170 frames, where it becomes "up" with exercise_count 1;
\* the final count is 1.
C3_PushupScenario ==
    (/\ script.angles = PushupScenario
     /\ script.exercise_type = "pushup"
     /\ script.joint = "left_elbow")
    => /\ fed < 5 => (stage # "down" /\ exercise_count = 0)
       /\ fed \in 5..7 => (stage = "down" /\ exercise_count = 0)
       /\ fed \in 8..10 => \/ (stage = "down" /\ exercise_count = 0)
                           \/ (stage = "up" /\ exercise_count = 1)
       /\ fed = 10 => (stage = "up" /\ exercise_count = 1 /\ ret = 1)

C3_Witness ==
    /\ script.angles = PushupScenario
    /\ script.exercise_type = "pushup"
    /\ script.joint = "left_elbow"
    /\ fed = 10
    /\ stage = "up"
    /\ exercise_count = 1

\* C4 (SpecLong): the history never holds more than 30 frames; it is the last
\* min(n, 30) of the n non-empty frames detect_exercise received since
\* construction or the last reset, in arrival order; only detect_exercise and
\* reset change it.
C4_HistoryIsLast30 ==
    /\ [](/\ Len(angle_history) <= 30
          /\ Len(angle_history) = (IF Len(arrived) < 30 THEN Len(arrived) ELSE 30)
          /\ \A i \in 1..Len(angle_history) :
               angle_history[i] = arrived[Len(arrived) - Len(angle_history) + i])
    /\ [][angle_history' # angle_history =>
            op' \in {"detect_exercise", "reset"}]_vars

C4_Witness ==
    /\ Len(arrived) = 32
    /\ Len(angle_history) = 30
    /\ arrived[1] # arrived[32]
    /\ angle_history[1] = arrived[3]

\* C5 (SpecDetect): a detect_exercise call that leaves fewer than 10 frames in
\* the history does not change current_exercise and returns it, or 'unknown'
\* when it is None.
C5_NoDetectionBelow10 ==
    [][(op' = "detect_exercise" /\ Len(angle_history') < 10)
       => /\ current_exercise' = current_exercise
          /\ ret' = (IF current_exercise = None THEN "unknown"
                     ELSE current_exercise)]_vars

\* nine frames whose movement would match pushup, answered 'unknown'
C5_Witness ==
    /\ op = "detect_exercise"
    /\ Len(angle_history) = 9
    /\ first_match(angle_history) = "pushup"
    /\ ret = "unknown"
    /\ current_exercise = None

\* C6 (SpecDetect): current_exercise is None or one of the six labels, never
\* 'unknown'; detect_exercise changes it only to the label it matched and
\* returned; only reset sets it back to None.
C6_CurrentExerciseIsLabel ==
    /\ [](current_exercise \in {None, "pushup", "squat", "situp", "jumping_jack",
                                "lunge", "plank"})
    /\ [][current_exercise' # current_exercise =>
            \/ (op' = "reset" /\ current_exercise' = None)
            \/ /\ op' = "detect_exercise"
               /\ current_exercise' \in PatternNames
               /\ ret' = current_exercise'
               /\ matches_pattern(current_exercise', angle_history')]_vars

\* ten frames or more, nothing matched: 'unknown' is returned and not stored
C6_Witness ==
    /\ op = "detect_exercise"
    /\ Len(angle_history) >= 10
    /\ ret = "unknown"
    /\ current_exercise = None

\* C7 (SpecDetect): detect_exercise with an empty frame (no frame arrives)
\* returns 'unknown', also when current_exercise is set, and changes neither the
\* history nor current_exercise, stage or exercise_count.
C7_EmptyFrame ==
    [][(op' = "detect_exercise" /\ arrived' = arrived)
       => /\ ret' = "unknown"
          /\ UNCHANGED <<angle_history, current_exercise, stage, exercise_count,
                         feedback_messages>>]_vars

C7_Witness ==
    /\ op = "detect_exercise"
    /\ ret = "unknown"
    /\ current_exercise = "squat"
    /\ Len(angle_history) >= 10

\* C8 (Spec): after reset the analyzer is as freshly constructed:
\* exercise_count 0, stage None, current_exercise None, an empty history.
C8_ResetRestoresFresh ==
    [][op' = "reset" =>
         /\ exercise_count' = 0
         /\ stage' = None
         /\ current_exercise' = None
         /\ angle_history' = <<>>
         /\ feedback_messages' = <<>>]_vars

C8_Witness ==
    /\ op = "reset"
    /\ Fresh

\* C9 (Spec): count_repetitions with a label outside the catalog, or with
\* 'plank', returns the current exercise_count and changes nothing.
C9_UncountedLabels ==
    [][(op' = "count_repetitions"
        /\ last_type' \notin {"pushup", "squat", "situp", "jumping_jack", "lunge"})
       => /\ ret' = exercise_count
          /\ UNCHANGED <<exercise_count, stage, current_exercise, angle_history,
                         feedback_messages>>]_vars

C9_Witness ==
    /\ op = "count_repetitions"
    /\ last_type \in {"plank", "unknown", "burpee"}
    /\ stage = "down"
    /\ exercise_count = 1
    /\ ret = 1

\* the last 10 frames, the comparisons the score is about, and their deltas
Recent10 == LastN(angle_history, 10)
Shared == {p \in (2..Len(Recent10)) \X CallJoints :
             p[2] \in DOMAIN Recent10[p[1]] /\ p[2] \in DOMAIN Recent10[p[1] - 1]}
Delta(p) == Abs(Recent10[p[1]][p[2]] - Recent10[p[1] - 1][p[2]])
StaticWindow10 ==
    \A i \in 1..Len(Recent10), k \in 1..Len(Recent10) :
      \A j \in DOMAIN Recent10[i] \cap DOMAIN Recent10[k] :
        Recent10[i][j] = Recent10[k][j]
SmoothWindow10 == \A p \in Shared : 1 < Delta(p) /\ Delta(p) < 20

\* C10 as stated (SpecQuality): the score is 0 below 10 frames and in 0..100
\* otherwise; 0 when every joint's angle is the same across the last 10 frames;
\* 100 when every delta of a shared joint lies strictly between 1 and 20.
C10_AsStated ==
    op = "get_performance_summary" =>
      /\ Len(angle_history) < 10 => ret.quality_score = 0
      /\ ret.quality_score \in 0..100
      /\ (Len(angle_history) >= 10 /\ StaticWindow10) => ret.quality_score = 0
      /\ (Len(angle_history) >= 10 /\ SmoothWindow10) => ret.quality_score = 100

\* C10 amended (SpecQuality): as stated, the score being 100 for smooth deltas
\* only when some consecutive pair of the last 10 frames shares a joint.
C10_QualityScore ==
    op = "get_performance_summary" =>
      /\ Len(angle_history) < 10 => ret.quality_score = 0
      /\ ret.quality_score \in 0..100
      /\ (Len(angle_history) >= 10 /\ StaticWindow10) => ret.quality_score = 0
      /\ (Len(angle_history) >= 10 /\ Shared # {} /\ SmoothWindow10)
           => ret.quality_score = 100

C10_Witness ==
    /\ op = "get_performance_summary"
    /\ Len(angle_history) >= 10
    /\ Shared # {}
    /\ SmoothWindow10
    /\ ret.quality_score = 100

\* the comparisons of the last 10 frames that are consistent: 1 < delta < 20
Consistent == {p \in Shared : 1 < Delta(p) /\ Delta(p) < 20}

\* C11 as stated (SpecQuality): with at least 10 frames and at least one
\* comparison the score is 100 * consistent / total rounded to the nearest
\* integer, i.e. within one half of the ratio.
C11_AsStated ==
    (op = "get_performance_summary" /\ Len(angle_history) >= 10 /\ Shared # {})
    => /\ 2 * (100 * Cardinality(Consistent) - ret.quality_score * Cardinality(Shared))
            <= Cardinality(Shared)
       /\ 2 * (ret.quality_score * Cardinality(Shared) - 100 * Cardinality(Consistent))
            <= Cardinality(Shared)

\* C11 amended (SpecQuality): with at least 10 frames and at least one
\* comparison the score is int(consistent / total * 100): the ratio truncated,
\* not rounded, to an integer, and one below that for the ratios 29/50, 29/100,
\* 57/100 and 58/100, whose double product falls just short of an integer.
C11_ScoreTruncates ==
    (op = "get_performance_summary" /\ Len(angle_history) >= 10 /\ Shared # {})
    => LET good == Cardinality(Consistent)
           total == Cardinality(Shared)
           short == IF <<good, total>> \in {<<29, 50>>, <<29, 100>>, <<57, 100>>,
                                            <<58, 100>>}
                    THEN 1 ELSE 0
       IN  /\ (ret.quality_score + short) * total <= 100 * good
           /\ 100 * good < (ret.quality_score + short + 1) * total

\* six of nine comparisons consistent: 66, where rounding gives 67
C11_Witness ==
    /\ op = "get_performance_summary"
    /\ Len(angle_history) >= 10
    /\ Cardinality(Shared) = 9
    /\ Cardinality(Consistent) = 6
    /\ ret.quality_score = 66

\* the angle-range messages of evaluate_form, for any joint and any angle
GoDeeperMessage(title, angle) ==
    "Go deeper! " \o title \o " angle: " \o ToString(angle) \o "°"

RangeMessages ==
    {GoDeeperMessage(title, angle) :
        title \in {"Left Elbow", "Right Elbow", "Left Knee", "Right Knee",
                   "Left Hip", "Right Hip", "Left Shoulder", "Right Shoulder",
                   "Left Wrist"},
        angle \in 0..180}
    \cup {"Don't go too low! Risk of injury."}
    \cup {"Come up higher! Target: " \o ToString(target) \o "°" : target \in 0..180}

\* the key joints of pushup and squat with their titles, and the ideal maxima
DeepJoints(exercise_type) ==
    IF exercise_type = "pushup"
    THEN {<<"left_elbow", "Left Elbow">>, <<"right_elbow", "Right Elbow">>}
    ELSE {<<"left_knee", "Left Knee">>, <<"right_knee", "Right Knee">>}

DeepMax(exercise_type) == IF exercise_type = "pushup" THEN 90 ELSE 100

\* C12 (SpecCalls): evaluate_form judges the angle range only while the stage is
\* "down": for pushup or squat in stage "down" every present key joint above the
\* ideal maximum gets a "Go deeper!" message with its title and angle; in stage
\* None or "up" the list has no "Go deeper!", injury-risk or "Come up higher!"
\* message, whatever the frame and the label.
C12_RangeFeedbackOnlyDown ==
    [][op' = "evaluate_form" =>
         /\ (stage' = "down" /\ last_type' \in {"pushup", "squat"}) =>
              \A jt \in DeepJoints(last_type') :
                 (jt[1] \in DOMAIN last_angles'
                    /\ last_angles'[jt[1]] > DeepMax(last_type'))
                 => GoDeeperMessage(jt[2], last_angles'[jt[1]]) \in Range(ret')
         /\ stage' # "down" => Range(ret') \cap RangeMessages = {}]_vars

\* a pushup frame with the left elbow at 100 judged in stage "down"
C12_Witness ==
    /\ op = "evaluate_form"
    /\ last_type = "pushup"
    /\ stage = "down"
    /\ last_angles = Frame1("left_elbow", 100)
    /\ ret = <<"Go deeper! Left Elbow angle: 100°">>

\* the label's pattern lists the 'knees_aligned' form check
DeclaresKneesAligned(exercise_type) ==
    /\ exercise_type \in PatternNames
    /\ "knees_aligned" \in exercise_patterns(exercise_type).form_checks

\* C13 (SpecCalls): the list evaluate_form returns contains "Keep knees aligned!"
\* exactly when the label's pattern declares 'knees_aligned', the frame has both
\* left_knee and right_knee, and the two differ by more than 15 degrees; the
\* stage plays no part.
C13_KneesAligned ==
    [][op' = "evaluate_form" =>
         ("Keep knees aligned!" \in Range(ret')
          <=> /\ DeclaresKneesAligned(last_type')
              /\ {"left_knee", "right_knee"} \subseteq DOMAIN last_angles'
              /\ Abs(last_angles'["left_knee"] - last_angles'["right_knee"]) > 15)]_vars

\* a squat frame with the knees at 100 and 120, judged outside the "down" stage
C13_Witness ==
    /\ op = "evaluate_form"
    /\ last_type = "squat"
    /\ stage = "up"
    /\ last_angles = Frame2("left_knee", 100, "right_knee", 120)
    /\ "Keep knees aligned!" \in Range(ret)

\* the match rules as the catalog states them: the labels in catalog order, the
\* key joints of each, and the positions of the last n frames of a history
CatalogOrder == <<"pushup", "squat", "situp", "jumping_jack", "lunge", "plank">>

RuleJoints(label) ==
    CASE label = "pushup" -> {"left_elbow", "right_elbow"}
      [] label \in {"squat", "lunge"} -> {"left_knee", "right_knee"}
      [] label \in {"situp", "plank"} -> {"left_hip", "right_hip"}
      [] label = "jumping_jack" -> {"left_shoulder", "right_shoulder"}

LastFrames(h, n) == {i \in 1..Len(h) : i > Len(h) - n}

\* dynamic: some key joint's readings over the last 15 frames span more than 40
RuleDynamic(label, h) ==
    \E joint \in RuleJoints(label) :
       \E i, k \in LastFrames(h, 15) :
          /\ joint \in DOMAIN h[i]
          /\ joint \in DOMAIN h[k]
          /\ h[i][joint] - h[k][joint] > 40

\* static: every hip reading in the last 10 frames lies in [170, 180]
RuleStatic(h) ==
    \A i \in LastFrames(h, 10) :
       \A joint \in RuleJoints("plank") :
          joint \in DOMAIN h[i] => (170 <= h[i][joint] /\ h[i][joint] <= 180)

RuleHolds(label, h) ==
    IF label = "plank" THEN RuleStatic(h) ELSE RuleDynamic(label, h)

RuleHits(h) == {i \in 1..Len(CatalogOrder) : RuleHolds(CatalogOrder[i], h)}

\* C14 (SpecTorso): a non-empty frame that brings the history to 10 frames or more
\* makes detect_exercise return the earliest label in catalog order whose match
\* rule holds on the new history, and store it in current_exercise; when no
\* rule holds current_exercise is unchanged and the call returns it, or
\* "unknown" when it is None.
C14_EarliestMatch ==
    [][(op' = "detect_exercise" /\ arrived' # arrived /\ Len(angle_history') >= 10) =>
         IF RuleHits(angle_history') # {}
         THEN LET first == CHOOSE i \in RuleHits(angle_history') :
                               \A k \in RuleHits(angle_history') : i <= k
              IN  /\ ret' = CatalogOrder[first]
                  /\ current_exercise' = CatalogOrder[first]
         ELSE /\ current_exercise' = current_exercise
              /\ ret' = IF current_exercise = None THEN "unknown"
                        ELSE current_exercise]_vars

\* hips and shoulders both moved: situp and jumping_jack match, situp is returned
C14_Witness ==
    /\ op = "detect_exercise"
    /\ Len(angle_history) >= 10
    /\ RuleHolds("situp", angle_history)
    /\ RuleHolds("jumping_jack", angle_history)
    /\ ret = "situp"
    /\ current_exercise = "situp"

\* C15 (SpecScript): for situp the hysteresis is inverted: a count_repetitions
\* call whose hip angle is above 150 while the stage is not "down" sets the
\* stage to "down" and leaves the count; one whose hip angle is below 70 while
\* the stage is "down" sets the stage to "up" and adds 1 to the count; any
\* other call leaves stage and count as they were.
C15_SitupInverted ==
    [][(fed' = fed + 1 /\ script.exercise_type = "situp") =>
         IF script.angles[fed'] > 150 /\ stage # "down"
         THEN stage' = "down" /\ exercise_count' = exercise_count
         ELSE IF script.angles[fed'] < 70 /\ stage = "down"
              THEN stage' = "up" /\ exercise_count' = exercise_count + 1
              ELSE stage' = stage /\ exercise_count' = exercise_count]_vars

\* two situps counted, the angles 150 and 70 having changed nothing
C15_Witness ==
    /\ script.angles = SitupScenario
    /\ script.exercise_type = "situp"
    /\ script.joint = "right_hip"
    /\ fed = 8
    /\ stage = "up"
    /\ exercise_count = 2

\* C16 (SpecCalls): count_repetitions reads only the first key joint, in the
\* pattern's order, that the frame has.  When the first key joint is present,
\* the call ends in the stage and count that any call from the same state ends
\* in whose frame has the same first key joint reading, whatever its second key
\* joint and its other joints; when only the second is present the call ends
\* as a call with that angle on the first key joint would; when neither is
\* present stage and count are unchanged.
C16_FirstKeyJointOnly ==
    [][(op' = "count_repetitions" /\ last_type' \in DynamicTypes) =>
         LET key_joints == exercise_patterns(last_type').key_joints
             outcome == [stage |-> stage', exercise_count |-> exercise_count']
         IN  /\ key_joints[1] \in DOMAIN last_angles' =>
                  \A other \in FormFrames :
                     (/\ key_joints[1] \in DOMAIN other
                      /\ other[key_joints[1]] = last_angles'[key_joints[1]])
                     => count_result(stage, exercise_count, other, last_type') = outcome
             /\ (key_joints[1] \notin DOMAIN last_angles'
                   /\ key_joints[2] \in DOMAIN last_angles') =>
                  count_result(stage, exercise_count,
                               Frame1(key_joints[1], last_angles'[key_joints[2]]),
                               last_type') = outcome
             /\ (key_joints[1] \notin DOMAIN last_angles'
                   /\ key_joints[2] \notin DOMAIN last_angles') =>
                  (stage' = stage /\ exercise_count' = exercise_count)]_vars

\* a pushup call in stage "down" with the left elbow at 100 and the right elbow
\* at 165: the right elbow alone would have counted a repetition
C16_Witness ==
    /\ op = "count_repetitions"
    /\ last_type = "pushup"
    /\ last_angles = Frame2("left_elbow", 100, "right_elbow", 165)
    /\ stage = "down"
    /\ exercise_count = 0

\* C17 (SpecDetect): detect_exercise never returns "lunge" and current_exercise
\* is never "lunge": every history on which lunge matches has squat, listed
\* earlier with the same key joints and rule, match first.
C17_NeverLunge ==
    /\ current_exercise # "lunge"
    /\ op = "detect_exercise" => ret # "lunge"

\* the knees moved and the elbows did not: lunge matches, squat is the answer
C17_Witness ==
    /\ op = "detect_exercise"
    /\ Len(angle_history) >= 10
    /\ RuleHolds("lunge", angle_history)
    /\ ~RuleHolds("pushup", angle_history)
    /\ ret = "squat"
    /\ current_exercise = "squat"

\* C18 (Spec): while the stage is None the count is 0; the stage never goes from
\* None straight to "up"; and once it is "down" or "up" it becomes None again
\* only in reset.
C18_StageAndCount ==
    /\ [](stage = None => exercise_count = 0)
    /\ [][/\ stage = None => stage' # "up"
          /\ (stage # None /\ stage' = None) => op' = "reset"]_vars

\* a counted repetition behind, the stage "down" again
C18_Witness ==
    /\ op = "count_repetitions"
    /\ last_type \in DynamicTypes
    /\ stage = "down"
    /\ exercise_count = 1
    /\ ret = 1

\* C19 (SpecDetect): while the history has fewer than 10 frames current_exercise
\* is None, so each of the first nine non-empty frames given to detect_exercise
\* after construction or reset is answered "unknown".
C19_NoLabelBelow10 ==
    /\ Len(angle_history) < 10 => current_exercise = None
    /\ (op = "detect_exercise" /\ Len(arrived) \in 1..9) => ret = "unknown"

\* the ninth frame of a stream in which the knees have moved
C19_Witness ==
    /\ op = "detect_exercise"
    /\ Len(arrived) = 9
    /\ Len(angle_history) = 9
    /\ RuleHolds("squat", angle_history)
    /\ ret = "unknown"
    /\ current_exercise = None

\* no hip reading in the last 10 frames; some dynamic rule holds; a hip reading
\* of the last 10 frames outside [170, 180]
NoHipReading(h) ==
    \A i \in LastFrames(h, 10) : DOMAIN h[i] \cap {"left_hip", "right_hip"} = {}

AnyDynamic(h) ==
    \E label \in {"pushup", "squat", "situp", "jumping_jack", "lunge"} :
       RuleDynamic(label, h)

HipOutside(h) ==
    \E i \in LastFrames(h, 10) :
       \E joint \in DOMAIN h[i] \cap {"left_hip", "right_hip"} :
          h[i][joint] < 170 \/ h[i][joint] > 180

\* C20 (SpecDetect): for a non-empty frame that brings the history to 10 frames
\* or more, detect_exercise returns "plank" when the last 10 frames have no hip
\* reading and no dynamic rule holds; and it returns "unknown" only when
\* current_exercise was None, no dynamic rule holds and some hip reading of the
\* last 10 frames lies outside [170, 180].
C20_VacuousPlank ==
    [][(op' = "detect_exercise" /\ arrived' # arrived /\ Len(angle_history') >= 10) =>
         /\ (NoHipReading(angle_history') /\ ~AnyDynamic(angle_history'))
              => ret' = "plank"
         /\ ret' = "unknown" =>
              /\ current_exercise = None
              /\ ~AnyDynamic(angle_history')
              /\ HipOutside(angle_history')]_vars

\* elbows and knees held still, no hip in sight: answered "plank"
C20_Witness ==
    /\ op = "detect_exercise"
    /\ Len(angle_history) >= 10
    /\ Len(arrived) >= 10
    /\ NoHipReading(angle_history)
    /\ ~AnyDynamic(angle_history)
    /\ \E i \in 1..Len(angle_history) : "left_elbow" \in DOMAIN angle_history[i]
    /\ ret = "plank"

=============================================================================
